---- MODULE Spec2Model ----
(***************************************************************************)
(* A* solver for the Farmer, Wolf, Duck & Corn problem (src/fwdc.cpp).     *)
(*                                                                         *)
(* The model has three layers:                                             *)
(*   - the puzzle's state type FWDCstate with its operators;               *)
(*   - PSNode with updateCostCond, run one call frame at a time on an      *)
(*     explicit call stack;                                                *)
(*   - the search driver of main(), one action per step of its loops.      *)
(*                                                                         *)
(* main() asks its domain for three things only: nextStates(), h() and     *)
(* isWinning().  The variable dom holds the domain the driver runs on: the *)
(* puzzle of the repository, or another finite domain over the same state  *)
(* type, so that the properties stated for every domain can be examined.   *)
(***************************************************************************)
EXTENDS Integers, Sequences, FiniteSets, TLC

(***************************************************************************)
(* Bounds of the model.                                                    *)
(***************************************************************************)
\* number of vertices of the exhaustively enumerated graph domains
MaxStates == 2
\* cap on the depth of the updateCostCond call stack
MaxDepth == 8

(***************************************************************************)
(* Program constants.                                                      *)
(***************************************************************************)
\* the null pointer: node pointers are indices 1.. into nodes
NULL == 0
\* the priority main() gives the start node in the frontier
StartKey == 1

(***************************************************************************)
(* FWDCstate                                                               *)
(***************************************************************************)
FWDCstate == [FL : BOOLEAN, WL : BOOLEAN, DL : BOOLEAN, CL : BOOLEAN]

\* FWDCstate(bool FF, bool WW, bool DD, bool CC)
NewState(FF, WW, DD, CC) == [FL |-> FF, WL |-> WW, DL |-> DD, CL |-> CC]

\* FWDCstate(): all items on the right bank
DefaultState == NewState(FALSE, FALSE, FALSE, FALSE)

\* a mutant of Less: the corn's bank is not compared
LessNoCorn(a, b) ==
    IF a.FL # b.FL THEN b.FL
    ELSE IF a.WL # b.WL THEN b.WL
    ELSE IF a.DL # b.DL THEN b.DL
    ELSE FALSE

\* operator<
Less(a, b) ==
    IF a.FL # b.FL THEN b.FL
    ELSE IF a.WL # b.WL THEN b.WL
    ELSE IF a.DL # b.DL THEN b.DL
    ELSE IF a.CL # b.CL THEN b.CL
    ELSE FALSE

\* operator!=
NotEqual(a, b) == a.FL # b.FL \/ a.WL # b.WL \/ a.DL # b.DL \/ a.CL # b.CL

\* a mutant of isWinning: the corn's bank is not tested
isWinningNoCorn(s) == s.FL /\ s.WL /\ s.DL

isWinning(s) == s.FL /\ s.WL /\ s.DL /\ s.CL

\* (int) of a bool
BoolToInt(b) == IF b THEN 1 ELSE 0

\* a mutant of h: the farmer is counted too
hWithFarmer(s) ==
    BoolToInt(~s.FL) + BoolToInt(~s.WL) + BoolToInt(~s.DL) + BoolToInt(~s.CL)

h(s) == BoolToInt(~s.WL) + BoolToInt(~s.DL) + BoolToInt(~s.CL)

canMoveFW(s) == s.FL = s.WL /\ s.DL # s.CL

canMoveFC(s) == s.FL = s.CL /\ s.WL # s.DL

canMoveF(s) == s.DL # s.CL /\ s.WL # s.DL

canMoveFD(s) == s.FL = s.DL

\* a mutant of nextStates: the farmer never crosses alone
nextStatesNeverAlone(s) ==
    (IF canMoveFW(s) THEN <<NewState(~s.FL, ~s.WL, s.DL, s.CL)>> ELSE <<>>)
    \o (IF canMoveFD(s) THEN <<NewState(~s.FL, s.WL, ~s.DL, s.CL)>> ELSE <<>>)
    \o (IF canMoveFC(s) THEN <<NewState(~s.FL, s.WL, s.DL, ~s.CL)>> ELSE <<>>)

\* a mutant of nextStates: the corn move is not guarded by canMoveFC
nextStatesUnguardedCorn(s) ==
    (IF canMoveFW(s) THEN <<NewState(~s.FL, ~s.WL, s.DL, s.CL)>> ELSE <<>>)
    \o (IF canMoveFD(s) THEN <<NewState(~s.FL, s.WL, ~s.DL, s.CL)>> ELSE <<>>)
    \o <<NewState(~s.FL, s.WL, s.DL, ~s.CL)>>
    \o (IF canMoveF(s) THEN <<NewState(~s.FL, s.WL, s.DL, s.CL)>> ELSE <<>>)

nextStates(s) ==
    (IF canMoveFW(s) THEN <<NewState(~s.FL, ~s.WL, s.DL, s.CL)>> ELSE <<>>)
    \o (IF canMoveFD(s) THEN <<NewState(~s.FL, s.WL, ~s.DL, s.CL)>> ELSE <<>>)
    \o (IF canMoveFC(s) THEN <<NewState(~s.FL, s.WL, s.DL, ~s.CL)>> ELSE <<>>)
    \o (IF canMoveF(s) THEN <<NewState(~s.FL, s.WL, s.DL, s.CL)>> ELSE <<>>)

(***************************************************************************)
(* Domains.  A domain is what main() reads of its domain model: the start  *)
(* state and the answers of nextStates(), h() and isWinning().             *)
(***************************************************************************)
\* the puzzle as main() uses it
Puzzle ==
    [name  |-> "FWDC",
     start |-> DefaultState,
     next  |-> [s \in FWDCstate |-> nextStates(s)],
     heur  |-> [s \in FWDCstate |-> h(s)],
     win   |-> [s \in FWDCstate |-> isWinning(s)]]

\* vertex k of a graph domain is the state whose four flags spell k in binary
Vertex(k) ==
    NewState((k \div 8) % 2 = 1, (k \div 4) % 2 = 1, (k \div 2) % 2 = 1, k % 2 = 1)

VertexId(s) ==
    8 * BoolToInt(s.FL) + 4 * BoolToInt(s.WL) + 2 * BoolToInt(s.DL) + BoolToInt(s.CL)

VertexSeq(ks) == [j \in 1..Len(ks) |-> Vertex(ks[j])]

\* a graph on vertices 0..n-1: succ[k] lists k's successors in order,
\* hh[k] is its heuristic value, vertex 0 is the start and goal the goal
GraphDomain(nm, n, succ, hh, goal) ==
    [name  |-> nm,
     start |-> Vertex(0),
     next  |-> [s \in FWDCstate |->
                  IF VertexId(s) < n THEN VertexSeq(succ[VertexId(s)]) ELSE <<>>],
     heur  |-> [s \in FWDCstate |-> IF VertexId(s) < n THEN hh[VertexId(s)] ELSE 0],
     win   |-> [s \in FWDCstate |-> VertexId(s) = goal]]

\* the members of S, a set of vertex numbers below n, in ascending order
Ascending(S, n) ==
    LET In(k) == k \in S
    IN  SelectSeq([j \in 1..n |-> j - 1], In)

\* every graph on MaxStates vertices, with every heuristic of values 0 and 1
Family ==
    { GraphDomain("graph", MaxStates,
                  [k \in 0..(MaxStates - 1) |-> Ascending(e[k], MaxStates)],
                  hh, MaxStates - 1) :
        e \in [0..(MaxStates - 1) -> SUBSET (0..(MaxStates - 1))],
        hh \in [0..(MaxStates - 1) -> {0, 1}] }

\* Two routes to the goal 6: 0-1-2-6 and 0-3-4-5-6.  The heuristic is
\* admissible and consistent; the longer route has the lower estimates.
TieDomain ==
    GraphDomain("tie", 7,
                [k \in 0..6 |->
                    CASE k = 0 -> <<3, 1>>
                      [] k = 1 -> <<2>>
                      [] k = 2 -> <<6>>
                      [] k = 3 -> <<4>>
                      [] k = 4 -> <<5>>
                      [] k = 5 -> <<6>>
                      [] OTHER -> <<>>],
                [k \in 0..6 |->
                    CASE k = 1 -> 2
                      [] k = 2 -> 1
                      [] OTHER -> 0],
                6)

\* Vertex 4 is first reached along 0-1-2-4 and then, while it waits in the
\* frontier, along 0-3-4.  Admissible heuristic, 4 has estimate 1.
RelaxDomain ==
    GraphDomain("relax", 6,
                [k \in 0..5 |->
                    CASE k = 0 -> <<1, 3>>
                      [] k = 1 -> <<2>>
                      [] k = 2 -> <<4>>
                      [] k = 3 -> <<4>>
                      [] k = 4 -> <<5>>
                      [] OTHER -> <<>>],
                [k \in 0..5 |->
                    CASE k = 3 -> 2
                      [] k = 4 -> 1
                      [] OTHER -> 0],
                5)

\* As RelaxDomain, with estimate 0 for vertex 4.
RelaxZeroDomain ==
    GraphDomain("relax0", 6,
                [k \in 0..5 |->
                    CASE k = 0 -> <<1, 3>>
                      [] k = 1 -> <<2>>
                      [] k = 2 -> <<4>>
                      [] k = 3 -> <<4>>
                      [] k = 4 -> <<5>>
                      [] OTHER -> <<>>],
                [k \in 0..5 |->
                    CASE k = 3 -> 2
                      [] OTHER -> 0],
                5)

\* Vertex 3 is expanded at cost 3 (0-1-2-3) before the cheaper 0-6-3 is
\* found; its descendants 4 and 5 are already generated then.  Every move
\* can be taken back, as in the puzzle.  Admissible heuristic.
CascadeDomain ==
    GraphDomain("cascade", 8,
                [k \in 0..7 |->
                    CASE k = 0 -> <<1, 6>>
                      [] k = 1 -> <<0, 2>>
                      [] k = 2 -> <<1, 3>>
                      [] k = 3 -> <<2, 4>>
                      [] k = 4 -> <<3, 5>>
                      [] k = 5 -> <<4, 7>>
                      [] k = 6 -> <<0, 3>>
                      [] OTHER -> <<>>],
                [k \in 0..7 |->
                    CASE k = 6 -> 4
                      [] OTHER -> 0],
                7)

\* A ring of five vertices whose moves can be taken back; no vertex is a
\* goal.
RingDomain ==
    GraphDomain("ring", 5,
                [k \in 0..4 |-> <<(k + 1) % 5, (k + 4) % 5>>],
                [k \in 0..4 |-> k % 2],
                5)

Domains ==
    {Puzzle, TieDomain, RelaxDomain, RelaxZeroDomain, CascadeDomain, RingDomain}
        \cup Family

(***************************************************************************)
(* State of main().                                                        *)
(*   nodes       the PSNode objects on the heap; a PSNode* is an index      *)
(*   generated   map<FWDCstate, PSNode*>, as its set of (key, node) pairs   *)
(*   frontier    multimap<int, PSNode*>, as its entries in iteration order  *)
(*   stack       the active calls of updateCostCond, innermost last        *)
(*   retval      what the last call made by main() returned                *)
(*   message     the line printed after the loop                           *)
(*   outpath     the states of the printed path, first to last             *)
(*   pc          where main() stands                                       *)
(*   expanded    history: the nodes taken from the frontier, in order      *)
(*   seen        history: the states generated so far                      *)
(*   order       history: the nodes in the frontier, in the order in which  *)
(*               their present entries were inserted                        *)
(***************************************************************************)
VARIABLES dom, nodes, generated, frontier, winningNode, tempNode, workNode,
          tempChildren, i, outpath, pc, stack, retval, message, expanded, seen,
          order

vars == <<dom, nodes, generated, frontier, winningNode, tempNode, workNode,
          tempChildren, i, outpath, pc, stack, retval, message, expanded, seen,
          order>>

(***************************************************************************)
(* multimap<int, PSNode*>                                                  *)
(***************************************************************************)
FrontierPair(k, n) == [key |-> k, node |-> n]

\* a mutant of FrontierInsert: the entry goes before the entries of equal key
FrontierInsertLowerBound(f, k, n) ==
    LET pos == Cardinality({j \in 1..Len(f) : f[j].key < k})
    IN  SubSeq(f, 1, pos) \o <<FrontierPair(k, n)>> \o SubSeq(f, pos + 1, Len(f))

\* multimap::insert: after the entries whose key is not greater
FrontierInsert(f, k, n) ==
    LET pos == Cardinality({j \in 1..Len(f) : f[j].key <= k})
    IN  SubSeq(f, 1, pos) \o <<FrontierPair(k, n)>> \o SubSeq(f, pos + 1, Len(f))

\* multimap::erase(iterator)
FrontierErase(f, j) == SubSeq(f, 1, j - 1) \o SubSeq(f, j + 1, Len(f))

\* q without its members equal to x
Without(q, x) ==
    LET Other(y) == y # x
    IN  SelectSeq(q, Other)

\* the positions of node n in f
EntriesOf(f, n) == {j \in 1..Len(f) : f[j].node = n}

(***************************************************************************)
(* map<FWDCstate, PSNode*>: keys are compared with operator< only          *)
(***************************************************************************)
GeneratedPair(s, n) == [key |-> s, node |-> n]

Equivalent(a, b) == ~Less(a, b) /\ ~Less(b, a)

\* map::count
GeneratedCount(g, s) == Cardinality({e \in g : Equivalent(e.key, s)})

\* map::insert: no effect when an equivalent key is present
GeneratedInsert(g, s, n) ==
    IF GeneratedCount(g, s) > 0 THEN g ELSE g \cup {GeneratedPair(s, n)}

\* map::operator[] on a key that is present
GeneratedAt(g, s) == (CHOOSE e \in g : Equivalent(e.key, s)).node

(***************************************************************************)
(* PSNode                                                                  *)
(***************************************************************************)
\* a mutant of PSNode: the move from the parent is not counted
PSNodeSameCost(newstate, from) ==
    [state         |-> newstate,
     parent        |-> from,
     cost2reach    |-> IF from = NULL THEN 0 ELSE nodes[from].cost2reach,
     projectedCost |-> dom.heur[newstate],
     children      |-> <<>>]

\* PSNode(FWDCstate newstate, PSNode * from)
PSNode(newstate, from) ==
    [state         |-> newstate,
     parent        |-> from,
     cost2reach    |-> IF from = NULL THEN 0 ELSE nodes[from].cost2reach + 1,
     projectedCost |-> dom.heur[newstate],
     children      |-> <<>>]

\* a mutant of Improves: an equal cost is accepted too
ImprovesOrEqual(newcost, self) == newcost <= nodes[self].cost2reach

\* a mutant of Improves: any different cost is accepted
ImprovesOrWorse(newcost, self) == newcost # nodes[self].cost2reach

\* the test of updateCostCond
Improves(newcost, self) == newcost < nodes[self].cost2reach

\* the key whose entries updateCostCond searches for the node
FrontierBucket(self) == nodes[self].cost2reach

\* a mutant of ReKey: the new entry is inserted whether or not an old one
\* was found
ReKeyInsertsAnyway(f, self, newcost) ==
    LET hits == {j \in 1..Len(f) : f[j].key = FrontierBucket(self) /\ f[j].node = self}
        rest == IF hits = {} THEN f
                ELSE FrontierErase(f, CHOOSE x \in hits : \A y \in hits : x <= y)
    IN  FrontierInsert(rest, newcost + nodes[self].projectedCost, self)

\* the loop over [lower_bound, upper_bound) of updateCostCond: the first
\* entry of that key holding the node is erased and inserted again
ReKey(f, self, newcost) ==
    LET hits == {j \in 1..Len(f) : f[j].key = FrontierBucket(self) /\ f[j].node = self}
    IN  IF hits = {} THEN f
        ELSE LET j == CHOOSE x \in hits : \A y \in hits : x <= y
             IN  FrontierInsert(FrontierErase(f, j),
                                newcost + nodes[self].projectedCost, self)

\* the loop of updateCostCond finds an entry of the node
Found(f, self) ==
    \E j \in 1..Len(f) : f[j].key = FrontierBucket(self) /\ f[j].node = self

\* a call of updateCostCond(newcost, newparent, frontier) on node self
Frame(self, newcost, newparent) ==
    [self |-> self, newcost |-> newcost, newparent |-> newparent,
     at |-> "test", i |-> 0]

Top == stack[Len(stack)]

Pop(s) == SubSeq(s, 1, Len(s) - 1)

(***************************************************************************)
(* main(): construction of the start node and of the two containers        *)
(***************************************************************************)
Init ==
    /\ dom \in Domains
    /\ nodes = <<[state |-> dom.start, parent |-> NULL, cost2reach |-> 0,
                  projectedCost |-> dom.heur[dom.start], children |-> <<>>]>>
    /\ generated = {GeneratedPair(dom.start, 1)}
    /\ frontier = <<FrontierPair(StartKey, 1)>>
    /\ winningNode = NULL
    /\ tempNode = 1
    /\ workNode = NULL
    /\ tempChildren = <<>>
    /\ i = 0
    /\ outpath = <<>>
    /\ pc = "while"
    /\ stack = <<>>
    /\ retval = FALSE
    /\ message = ""
    /\ expanded = <<>>
    /\ seen = {dom.start}
    /\ order = <<1>>

(***************************************************************************)
(* main(): the while loop                                                  *)
(***************************************************************************)
\* a mutant of WhileCond: the loop stops with one entry left
WhileCondOneLeft == winningNode = NULL /\ Len(frontier) > 1

WhileCond == winningNode = NULL /\ frontier # <<>>

ForCond == winningNode = NULL /\ i < Len(tempChildren)

\* tempChildren[i]
Child == tempChildren[i + 1]

\* the test "generated state not that of parent" of the for loop
NotOwnState == NotEqual(Child, nodes[tempNode].state)

\* the lowest entry leaves the frontier and its node's successors are listed
Expand ==
    /\ pc = "while"
    /\ WhileCond
    /\ tempNode' = frontier[1].node
    /\ frontier' = FrontierErase(frontier, 1)
    /\ tempChildren' = dom.next[nodes[frontier[1].node].state]
    /\ i' = 0
    /\ pc' = "for"
    /\ expanded' = Append(expanded, frontier[1].node)
    /\ order' = Without(order, frontier[1].node)
    /\ UNCHANGED <<dom, nodes, generated, winningNode, workNode, outpath, stack,
                   retval, message, seen>>

\* a successor equal to the expanded node's own state is passed over
Skip ==
    /\ pc = "for"
    /\ ForCond
    /\ ~NotOwnState
    /\ i' = i + 1
    /\ UNCHANGED <<order, dom, nodes, generated, frontier, winningNode, tempNode, workNode,
                   tempChildren, outpath, pc, stack, retval, message, expanded, seen>>

\* the successor's state has a node: main() calls its updateCostCond
Regenerated ==
    /\ pc = "for"
    /\ ForCond
    /\ NotOwnState
    /\ GeneratedCount(generated, Child) > 0
    /\ stack' = <<Frame(GeneratedAt(generated, Child),
                        nodes[tempNode].cost2reach + 1, tempNode)>>
    /\ pc' = "call"
    /\ seen' = seen \cup {Child}
    /\ UNCHANGED <<order, dom, nodes, generated, frontier, winningNode, tempNode, workNode,
                   tempChildren, i, outpath, retval, message, expanded>>

\* a mutant of Returned: the node does not join the children of tempNode
ReturnedNotAppended ==
    /\ pc = "call"
    /\ stack = <<>>
    /\ i' = i + 1
    /\ pc' = "for"
    /\ UNCHANGED <<order, dom, nodes, generated, frontier, winningNode, tempNode, workNode,
                   tempChildren, outpath, stack, retval, message, expanded, seen>>

\* the call has returned: the node joins the children of tempNode
Returned ==
    /\ pc = "call"
    /\ stack = <<>>
    /\ nodes' = [nodes EXCEPT ![tempNode].children =
                    Append(@, GeneratedAt(generated, Child))]
    /\ i' = i + 1
    /\ pc' = "for"
    /\ UNCHANGED <<order, dom, generated, frontier, winningNode, tempNode, workNode,
                   tempChildren, outpath, stack, retval, message, expanded, seen>>

\* the successor's state is new: its node is made, entered in both
\* containers, tested for the goal and joins the children of tempNode
NewNode ==
    /\ pc = "for"
    /\ ForCond
    /\ NotOwnState
    /\ GeneratedCount(generated, Child) = 0
    /\ LET made == PSNode(Child, tempNode)
           ptr  == Len(nodes) + 1
           gen  == GeneratedInsert(generated, made.state, ptr)
       IN  /\ generated' = gen
           /\ workNode' = ptr
           /\ frontier' = FrontierInsert(frontier,
                                         made.cost2reach + made.projectedCost, ptr)
           /\ winningNode' = IF dom.win[made.state] THEN ptr ELSE winningNode
           /\ nodes' = [Append(nodes, made) EXCEPT ![tempNode].children =
                           Append(@, GeneratedAt(gen, Child))]
    /\ i' = i + 1
    /\ seen' = seen \cup {Child}
    /\ order' = Append(order, Len(nodes) + 1)
    /\ UNCHANGED <<dom, tempNode, tempChildren, outpath, pc, stack, retval,
                   message, expanded>>

\* the for loop is over
EndFor ==
    /\ pc = "for"
    /\ ~ForCond
    /\ pc' = "while"
    /\ UNCHANGED <<order, dom, nodes, generated, frontier, winningNode, tempNode, workNode,
                   tempChildren, i, outpath, stack, retval, message, expanded, seen>>

(***************************************************************************)
(* PSNode::updateCostCond, the innermost active call                       *)
(***************************************************************************)
\* newcost is no improvement: return false
Reject ==
    /\ pc = "call"
    /\ stack # <<>>
    /\ Top.at = "test"
    /\ ~Improves(Top.newcost, Top.self)
    /\ stack' = Pop(stack)
    /\ retval' = IF Len(stack) = 1 THEN FALSE ELSE retval
    /\ UNCHANGED <<order, dom, nodes, generated, frontier, winningNode, tempNode, workNode,
                   tempChildren, i, outpath, pc, message, expanded, seen>>

\* newcost is an improvement: the frontier entry is looked for and moved,
\* cost2reach and parent are assigned
Accept ==
    /\ pc = "call"
    /\ stack # <<>>
    /\ Top.at = "test"
    /\ Improves(Top.newcost, Top.self)
    /\ frontier' = ReKey(frontier, Top.self, Top.newcost)
    /\ nodes' = [nodes EXCEPT ![Top.self].cost2reach = Top.newcost,
                              ![Top.self].parent = Top.newparent]
    /\ stack' = [stack EXCEPT ![Len(stack)].at = "children"]
    /\ order' = IF Found(frontier, Top.self)
                THEN Append(Without(order, Top.self), Top.self)
                ELSE order
    /\ UNCHANGED <<dom, generated, winningNode, tempNode, workNode, tempChildren,
                   i, outpath, pc, retval, message, expanded, seen>>

\* children[i]->updateCostCond(newcost + 1, this, frontier)
Propagate ==
    /\ pc = "call"
    /\ stack # <<>>
    /\ Top.at = "children"
    /\ Top.i < Len(nodes[Top.self].children)
    /\ Len(stack) < MaxDepth
    /\ stack' = Append([stack EXCEPT ![Len(stack)].i = @ + 1],
                       Frame(nodes[Top.self].children[Top.i + 1],
                             Top.newcost + 1, Top.self))
    /\ UNCHANGED <<order, dom, nodes, generated, frontier, winningNode, tempNode, workNode,
                   tempChildren, i, outpath, pc, retval, message, expanded, seen>>

\* every child has been offered the new cost: return true
Updated ==
    /\ pc = "call"
    /\ stack # <<>>
    /\ Top.at = "children"
    /\ Top.i >= Len(nodes[Top.self].children)
    /\ stack' = Pop(stack)
    /\ retval' = IF Len(stack) = 1 THEN TRUE ELSE retval
    /\ UNCHANGED <<order, dom, nodes, generated, frontier, winningNode, tempNode, workNode,
                   tempChildren, i, outpath, pc, message, expanded, seen>>

(***************************************************************************)
(* main(): after the while loop                                            *)
(***************************************************************************)
Solved == "Winning state reached."

Exhausted == "No path to goal!"

\* the loop has ended with a goal node: the path is printed from it
Won ==
    /\ pc = "while"
    /\ ~WhileCond
    /\ winningNode # NULL
    /\ message' = Solved
    /\ workNode' = winningNode
    /\ pc' = "path"
    /\ UNCHANGED <<order, dom, nodes, generated, frontier, winningNode, tempNode,
                   tempChildren, i, outpath, stack, retval, expanded, seen>>

\* one turn of the loop over the parent links
PathStep ==
    /\ pc = "path"
    /\ workNode # NULL
    /\ outpath' = <<nodes[workNode].state>> \o outpath
    /\ workNode' = nodes[workNode].parent
    /\ UNCHANGED <<order, dom, nodes, generated, frontier, winningNode, tempNode,
                   tempChildren, i, pc, stack, retval, message, expanded, seen>>

\* the start node has been passed: the path is printed
PathEnd ==
    /\ pc = "path"
    /\ workNode = NULL
    /\ pc' = "done"
    /\ UNCHANGED <<order, dom, nodes, generated, frontier, winningNode, tempNode, workNode,
                   tempChildren, i, outpath, stack, retval, message, expanded, seen>>

\* the loop has ended without a goal node
Lost ==
    /\ pc = "while"
    /\ ~WhileCond
    /\ winningNode = NULL
    /\ message' = Exhausted
    /\ pc' = "done"
    /\ UNCHANGED <<order, dom, nodes, generated, frontier, winningNode, tempNode, workNode,
                   tempChildren, i, outpath, stack, retval, expanded, seen>>

Next ==
    \/ Expand
    \/ Skip
    \/ Regenerated
    \/ Returned
    \/ NewNode
    \/ EndFor
    \/ Reject
    \/ Accept
    \/ Propagate
    \/ Updated
    \/ Won
    \/ PathStep
    \/ PathEnd
    \/ Lost

Spec == Init /\ [][Next]_vars

\* main() is one thread that runs to its end: no step waits on anything
FairSpec == Init /\ [][Next]_vars /\ WF_vars(Next)

(***************************************************************************)
(* Notions the properties are stated with                                  *)
(***************************************************************************)
Range(q) == {q[j] : j \in DOMAIN q}

NodeIds == 1..Len(nodes)

\* the least number of moves of domain d from a state of S to a winning
\* state, -1 when there is none; done holds the states already left behind
RECURSIVE Layers(_, _, _, _)
Layers(d, S, done, k) ==
    IF \E s \in S : d.win[s] THEN k
    ELSE LET fresh == UNION {Range(d.next[s]) : s \in S} \ (done \cup S)
         IN  IF fresh = {} THEN -1 ELSE Layers(d, fresh, done \cup S, k + 1)

\* breadth-first search of domain d from state s
Distance(d, s) == Layers(d, {s}, {}, 0)

\* the heuristic of d never exceeds the true remaining cost
Admissible(d) ==
    \A s \in FWDCstate : Distance(d, s) >= 0 => d.heur[s] <= Distance(d, s)

\* no wolf with duck, and no duck with corn, away from the farmer
Legal(s) ==
    /\ ~(s.WL = s.DL /\ s.FL # s.WL)
    /\ ~(s.DL = s.CL /\ s.FL # s.DL)

\* t is s after the farmer has crossed with at most one item of his bank
SingleMove(s, t) ==
    LET moved == {x \in {"WL", "DL", "CL"} : s[x] # t[x]}
    IN  /\ t.FL # s.FL
        /\ Cardinality(moved) <= 1
        /\ \A x \in moved : s[x] = s.FL

\* the nodes from n back along the parent links, at most fuel of them
RECURSIVE ParentChain(_, _)
ParentChain(n, fuel) ==
    IF n = NULL \/ fuel = 0 THEN <<>>
    ELSE <<n>> \o ParentChain(nodes[n].parent, fuel - 1)

Reverse(q) == [j \in 1..Len(q) |-> q[Len(q) + 1 - j]]

\* the first place of x in q
PositionIn(q, x) == CHOOSE j \in 1..Len(q) : q[j] = x /\ \A k \in 1..(j - 1) : q[k] # x

\* the domain's start state has no successor and is no goal
DeadEnd == dom.next[dom.start] = <<>> /\ ~dom.win[dom.start]

(***************************************************************************)
(* Properties                                                              *)
(***************************************************************************)

\* C1: for a domain with an admissible heuristic and a reachable goal, the
\* reported path has as many moves as the shortest path found by a
\* breadth-first search of the domain.
ReportedPathIsShortest ==
    (pc = "done" /\ Distance(dom, dom.start) >= 0 /\ Admissible(dom)) =>
        /\ message = Solved
        /\ Len(outpath) - 1 = Distance(dom, dom.start)

\* C2: on the puzzle from the all-right start the search ends Solved with a
\* path of exactly 7 moves whose last state has everything on the left bank.
PuzzleSolvedInSevenMoves ==
    (dom = Puzzle /\ pc = "done") =>
        /\ message = Solved
        /\ Len(outpath) = 7 + 1
        /\ outpath[1] = NewState(FALSE, FALSE, FALSE, FALSE)
        /\ outpath[Len(outpath)] = NewState(TRUE, TRUE, TRUE, TRUE)

PuzzleRunEnded == dom = Puzzle /\ pc = "done" /\ Len(outpath) > 1

\* C3: on the puzzle every state of a node, every successor nextStates gives
\* for it and every state of the reported path is legal, and every such
\* succession is one crossing of the farmer with at most one item of his
\* bank; the nodes' states are closed under nextStates once the run is over.
PuzzleStatesLegal ==
    dom = Puzzle =>
        /\ \A n \in NodeIds :
              /\ Legal(nodes[n].state)
              /\ \A t \in Range(dom.next[nodes[n].state]) :
                    Legal(t) /\ SingleMove(nodes[n].state, t)
              /\ \A c \in Range(nodes[n].children) :
                    SingleMove(nodes[n].state, nodes[c].state)
        /\ \A t \in Range(tempChildren) : Legal(t)
        /\ \A j \in 1..Len(outpath) : Legal(outpath[j])
        /\ \A j \in 1..(Len(outpath) - 1) : SingleMove(outpath[j], outpath[j + 1])
        /\ pc = "done" =>
              \A n \in NodeIds : \A t \in Range(dom.next[nodes[n].state]) :
                  \E m \in NodeIds : nodes[m].state = t

PuzzleAllStatesGenerated ==
    /\ dom = Puzzle
    /\ pc = "done"
    /\ Len(nodes) = 10
    /\ \A n \in NodeIds : Len(nodes[n].children) > 0 \/ n = winningNode

\* C4: every node not yet expanded has exactly one frontier entry, and the
\* key of that entry is the node's cost2reach + projectedCost.
FrontierInvariant ==
    \A n \in NodeIds :
        n \notin Range(expanded) =>
            /\ Cardinality(EntriesOf(frontier, n)) = 1
            /\ \A j \in EntriesOf(frontier, n) :
                  frontier[j].key = nodes[n].cost2reach + nodes[n].projectedCost

\* C5: when updateCostCond accepts a cheaper cost for a node that is in the
\* frontier, the node's entry is replaced by one entry keyed at
\* newcost + projectedCost.
RelaxedEntryReKeyed ==
    [][(/\ pc = "call"
        /\ stack # <<>>
        /\ Top.at = "test"
        /\ Top.newcost < nodes[Top.self].cost2reach
        /\ EntriesOf(frontier, Top.self) # {})
       => (/\ Len(frontier') = Len(frontier)
           /\ Cardinality(EntriesOf(frontier', Top.self)) = 1
           /\ \A j \in EntriesOf(frontier', Top.self) :
                 frontier'[j].key = Top.newcost + nodes[Top.self].projectedCost)]_vars

\* C6: the generated table holds exactly one node per state generated so
\* far: every node is in the table under its state, and no two nodes have
\* equal states.
OneNodePerState ==
    /\ Cardinality(generated) = Cardinality(seen)
    /\ {e.key : e \in generated} = seen
    /\ Len(nodes) = Cardinality(seen)
    /\ \A n \in NodeIds : GeneratedPair(nodes[n].state, n) \in generated
    /\ \A a, b \in NodeIds : a # b => nodes[a].state # nodes[b].state

TableLookedUpAgain == pc = "call" /\ Len(nodes) >= 3 /\ Cardinality(generated) >= 3

\* C7: when the search is Solved the parent links lead from the goal node to
\* the start node in exactly cost2reach steps, every link is a transition
\* nextStates gives for the parent's state, and the reported path is that
\* chain from the start to the goal.
ParentChainIsPath ==
    message = Solved =>
        LET chain == ParentChain(winningNode, Len(nodes) + 1)
        IN  /\ Len(chain) = nodes[winningNode].cost2reach + 1
            /\ chain[Len(chain)] = 1
            /\ nodes[1].parent = NULL
            /\ \A j \in 1..(Len(chain) - 1) :
                  /\ nodes[chain[j]].parent = chain[j + 1]
                  /\ nodes[chain[j]].state \in
                        Range(dom.next[nodes[chain[j + 1]].state])
            /\ pc = "done" =>
                  outpath = Reverse([j \in 1..Len(chain) |-> nodes[chain[j]].state])

SolvedAfterRelaxation ==
    /\ pc = "done"
    /\ message = Solved
    /\ dom = CascadeDomain
    /\ Len(outpath) = 6

\* C8: no step of the driver or of updateCostCond raises the cost2reach of
\* a node.
CostNeverIncreases ==
    [][\A n \in NodeIds : nodes'[n].cost2reach <= nodes[n].cost2reach]_vars

CostLowered == stack # <<>> /\ Top.at = "children" /\ Len(stack) >= 2

\* C9: the search terminates, either Solved with a goal node recorded or
\* Exhausted with an empty frontier and no goal node.
SearchTerminates ==
    <>(/\ pc = "done"
       /\ \/ message = Solved /\ winningNode # NULL
          \/ message = Exhausted /\ winningNode = NULL /\ frontier = <<>>)

LongSearchEnded == pc = "done" /\ Len(expanded) >= 5 /\ message = Exhausted

\* C10: when the start state has no successor and is no goal, the start
\* node is expanded once, the frontier becomes empty and the search ends
\* Exhausted with no goal node and no reported path.
DeadEndExhausts ==
    DeadEnd =>
        /\ [](winningNode = NULL /\ outpath = <<>> /\ Len(nodes) = 1)
        /\ <>(/\ pc = "done"
              /\ message = Exhausted
              /\ expanded = <<1>>
              /\ frontier = <<>>)

DeadEndEnded == DeadEnd /\ pc = "done" /\ expanded = <<1>>

\* C11: the start node has cost2reach 0 and no parent, and before the first
\* expansion it is the one entry of the generated table and the one entry
\* of the frontier, keyed at the heuristic value of the start state.
StartKeyedAtHeuristic ==
    /\ nodes[1].state = dom.start
    /\ nodes[1].cost2reach = 0
    /\ nodes[1].parent = NULL
    /\ expanded = <<>> =>
          /\ generated = {GeneratedPair(dom.start, 1)}
          /\ frontier = <<FrontierPair(dom.heur[dom.start], 1)>>

\* C12: when the expanded node has a parent, a successor equal to the
\* parent's state is passed over: no updateCostCond call is made for it and
\* the children of the expanded node stay as they are.
ParentStateExcluded ==
    [][(/\ pc = "for"
        /\ ForCond
        /\ nodes[tempNode].parent # NULL
        /\ Child = nodes[nodes[tempNode].parent].state)
       => (/\ stack' = <<>>
           /\ pc' = "for"
           /\ nodes' = nodes
           /\ i' = i + 1)]_vars

\* main() stands between two successors, or behind the loops
Boundary == stack = <<>> /\ pc # "call"

\* C13: between the driver's steps every node with a parent costs one move
\* more than its parent and is among its parent's children, and the parent
\* links of every node lead to the start node without a cycle.
ParentLinksConsistent ==
    Boundary =>
        \A n \in NodeIds :
            /\ nodes[n].parent # NULL =>
                  /\ nodes[n].cost2reach = nodes[nodes[n].parent].cost2reach + 1
                  /\ n \in Range(nodes[nodes[n].parent].children)
            /\ LET chain == ParentChain(n, Len(nodes) + 1)
               IN  /\ Len(chain) <= Len(nodes)
                   /\ chain[Len(chain)] = 1

\* a node expanded before its present parent has been relaxed since, and
\* has a child whose path runs through it
CascadeSettled ==
    /\ Boundary
    /\ \E n \in Range(expanded) :
          /\ nodes[n].parent \in Range(expanded)
          /\ PositionIn(expanded, nodes[n].parent) > PositionIn(expanded, n)
          /\ \E c \in Range(nodes[n].children) : nodes[c].parent = n

\* C14: a call of updateCostCond returns false exactly when newcost is not
\* below the node's cost2reach, and then no node and no frontier entry is
\* changed; a call with a lower newcost takes the cost and the parent and
\* returns true.  (A call returns false from its test and true from behind
\* its loop over the children; retval is what main() receives.)
ReturnsWhetherImproved ==
    [][(pc = "call" /\ stack # <<>>) =>
        LET self == Top.self
        IN  /\ (Top.at = "test" /\ Top.newcost >= nodes[self].cost2reach) =>
                  /\ stack' = Pop(stack)
                  /\ nodes' = nodes
                  /\ frontier' = frontier
                  /\ Len(stack) = 1 => retval' = FALSE
            /\ (Top.at = "test" /\ Top.newcost < nodes[self].cost2reach) =>
                  /\ Len(stack') = Len(stack)
                  /\ stack'[Len(stack)].at = "children"
                  /\ nodes'[self].cost2reach = Top.newcost
                  /\ nodes'[self].parent = Top.newparent
            /\ (Top.at = "children" /\ Len(stack') < Len(stack)) =>
                  /\ nodes[self].cost2reach <= Top.newcost
                  /\ Len(stack) = 1 => retval' = TRUE]_vars

\* main() has received true from a call that made further calls, one of
\* which returned false
ReturnedTrue ==
    /\ pc = "call"
    /\ stack = <<>>
    /\ retval
    /\ Len(nodes[GeneratedAt(generated, Child)].children) >= 2

\* C15: an improvement accepted for a node that has been expanded updates
\* its cost2reach and parent and is offered to each of its children, and
\* leaves the frontier as it is; a node taken from the frontier is never in
\* it again, and no node is expanded twice.
ExpandedStaysOut ==
    /\ [](\A n \in Range(expanded) : EntriesOf(frontier, n) = {})
    /\ [](\A j, k \in 1..Len(expanded) : j # k => expanded[j] # expanded[k])
    /\ [][(/\ pc = "call"
           /\ stack # <<>>
           /\ Top.self \in Range(expanded))
          => LET self == Top.self
             IN  /\ frontier' = frontier
                 /\ (Top.at = "test" /\ Top.newcost < nodes[self].cost2reach) =>
                       /\ nodes'[self].cost2reach = Top.newcost
                       /\ nodes'[self].parent = Top.newparent
                       /\ stack'[Len(stack)].at = "children"
                       /\ stack'[Len(stack)].i = 0
                 /\ (Top.at = "children" /\ Top.i < Len(nodes[self].children)) =>
                       /\ Len(stack') = Len(stack) + 1
                       /\ stack'[Len(stack)].i = Top.i + 1
                       /\ stack'[Len(stack')].self = nodes[self].children[Top.i + 1]
                       /\ stack'[Len(stack')].newcost = Top.newcost + 1
                       /\ stack'[Len(stack')].newparent = self]_vars

\* the last child of a relaxed, already expanded node has been offered the
\* new cost
ExpandedNodeRelaxed ==
    /\ stack # <<>>
    /\ Top.at = "children"
    /\ Top.self \in Range(expanded)
    /\ Top.i = Len(nodes[Top.self].children)
    /\ Top.i >= 2

\* C16: the entry taken by an expansion has a key no larger than that of
\* any other entry, and of the entries with that key it is the one that was
\* inserted first.
ExpandsLowestOldestEntry ==
    [][(pc = "while" /\ pc' = "for") =>
        \E j \in 1..Len(frontier) :
            /\ frontier[j].node = tempNode'
            /\ frontier' = FrontierErase(frontier, j)
            /\ \A k \in 1..Len(frontier) :
                  k # j =>
                      /\ frontier[k].key >= frontier[j].key
                      /\ frontier[k].key = frontier[j].key =>
                            PositionIn(order, frontier[j].node)
                                < PositionIn(order, frontier[k].node)]_vars

\* a node has just been taken from the frontier ahead of an entry with the
\* key the node had
ExpandedAheadOfTie ==
    /\ pc = "for"
    /\ i = 0
    /\ Len(expanded) >= 3
    /\ frontier # <<>>
    /\ frontier[1].key = nodes[tempNode].cost2reach + nodes[tempNode].projectedCost

\* C17: on the puzzle, nextStates of a legal state lists every legal state
\* that one crossing of the farmer, alone or with one item of his bank,
\* leads to, and lists no state twice.
NextStatesComplete ==
    dom = Puzzle =>
        \A s \in FWDCstate :
            Legal(s) =>
                /\ \A t \in FWDCstate :
                      (SingleMove(s, t) /\ Legal(t)) => t \in Range(dom.next[s])
                /\ Cardinality(Range(dom.next[s])) = Len(dom.next[s])
                /\ tempNode \in Range(expanded) /\ nodes[tempNode].state = s =>
                      tempChildren = dom.next[s]

\* the driver holds the three successors of a legal state
ThreeSuccessorsListed ==
    /\ dom = Puzzle
    /\ pc = "for"
    /\ Legal(nodes[tempNode].state)
    /\ Len(tempChildren) = 3
    /\ Cardinality({t \in FWDCstate :
                       SingleMove(nodes[tempNode].state, t) /\ Legal(t)}) = 3

\* C18: on the puzzle the heuristic value of every generated state, and of
\* every successor of one, is a natural number no larger than the least
\* number of moves from that state to the goal, and is 0 for the goal.
HeuristicAdmissible ==
    dom = Puzzle =>
        \A n \in NodeIds :
            \A s \in {nodes[n].state} \cup Range(dom.next[nodes[n].state]) :
                /\ dom.heur[s] \in Nat
                /\ Distance(dom, s) >= 0
                /\ dom.heur[s] <= Distance(dom, s)
                /\ dom.win[s] => dom.heur[s] = 0
                /\ nodes[n].projectedCost = dom.heur[nodes[n].state]

\* every state reachable from the start has a node, the goal among them
GoalAndAllStatesEstimated ==
    /\ dom = Puzzle
    /\ Len(nodes) = 10
    /\ winningNode # NULL
    /\ nodes[winningNode].projectedCost = 0
    /\ \A n \in NodeIds : \A t \in Range(dom.next[nodes[n].state]) :
          \E m \in NodeIds : nodes[m].state = t

\* C19: every call of updateCostCond returns: the call stack stays below
\* its cap, each call made by a call offers one more than its caller's
\* newcost, each acceptance lowers the node's cost2reach, and a call stack
\* that is not empty becomes empty.
CallsTerminate ==
    /\ [](Len(stack) < MaxDepth)
    /\ [](\A j \in 1..(Len(stack) - 1) :
            /\ stack[j + 1].newcost = stack[j].newcost + 1
            /\ stack[j + 1].newparent = stack[j].self)
    /\ [][(pc = "call" /\ stack # <<>> /\ Len(stack') = Len(stack)
              /\ stack'[Len(stack)].at # Top.at)
          => nodes'[Top.self].cost2reach < nodes[Top.self].cost2reach]_vars
    /\ (stack # <<>>) ~> (stack = <<>>)

\* a call offers a cost to the node its caller's caller was called on: the
\* children links form a cycle
OfferAroundCycle ==
    /\ Len(stack) >= 3
    /\ Top.self = stack[Len(stack) - 2].self
    /\ Top.self \in Range(nodes[stack[Len(stack) - 1].self].children)
    /\ stack[Len(stack) - 1].self \in Range(nodes[Top.self].children)

\* C20: in the run on the puzzle no call of updateCostCond accepts: main()
\* always receives false, no call makes a further call, and no node's
\* cost2reach or parent is ever changed.
PuzzleNeverRelaxes ==
    [][dom = Puzzle =>
        /\ retval' = FALSE
        /\ Len(stack') <= 1
        /\ \A j \in 1..Len(stack') : stack'[j].at = "test"
        /\ \A n \in NodeIds :
              /\ nodes'[n].cost2reach = nodes[n].cost2reach
              /\ nodes'[n].parent = nodes[n].parent]_vars

\* a node reached a second time at its own cost has been offered that cost
\* and main() has received false
PuzzleOfferRefused ==
    /\ dom = Puzzle
    /\ pc = "call"
    /\ stack = <<>>
    /\ ~retval
    /\ nodes[GeneratedAt(generated, Child)].cost2reach = nodes[tempNode].cost2reach + 1
    /\ nodes[GeneratedAt(generated, Child)].parent # tempNode

====
